---- MODULE Spec2Model ----
(***************************************************************************)
(* The lexer of tonho (package tonho, lexer source file).  One Lex call is *)
(* modelled as a state machine over the lexer struct: the main loop of     *)
(* lexer.lex takes one step per iteration (one call of nextToken, or the   *)
(* append of the EOF token).  Offsets are 0-based as in the Go code; the   *)
(* input is a sequence of one-character strings, one per byte.             *)
(***************************************************************************)
EXTENDS Naturals, Sequences, FiniteSets, TLC

\* l: the lexer struct of the Lex call the single-call specification follows.
\* steps: the number of nextToken calls that call has made (a history
\* variable).  calls: the lexer structs of the Lex calls that run
\* concurrently in the specification ConcSpec, one per goroutine.
VARIABLES l, steps, calls

vars == <<l, steps, calls>>

(* ------------------------------ bounds --------------------------------- *)

\* Longest input enumerated character by character over Alphabet.
MaxLen == 2

\* Most words of Words concatenated into one input.
MaxWords == 2

\* Most words of CallWords concatenated into the input of a concurrent call.
MaxCallWords == 1

(* --------------------------- token kinds ------------------------------- *)

EOF == 0
Error == 1
Identifier == 2
Decimal == 3
Int == 4
String == 5
Fun == 6
Val == 7
Var == 8
For == 9
While == 10
Loop == 11
If == 12
Else == 13
When == 14
Plus == 15
Minus == 16
Asterisk == 17
Slash == 18
Percent == 19
Equal == 20
NotEqual == 21
Less == 22
LessEqual == 23
Greater == 24
GreaterEqual == 25
And == 26
Or == 27
Not == 28
Assign == 29
LeftParen == 30
RightParen == 31
LeftBrace == 32
RightBrace == 33
LeftBracket == 34
RightBracket == 35
Comma == 36
Dot == 37
Colon == 38
Semi == 39
Arrow == 40
Comment == 41
Newline == 42

\* The keyword table: lexeme -> kind.
keywords ==
  [w \in { <<"f","u","n">>, <<"v","a","l">>, <<"v","a","r">>, <<"f","o","r">>,
           <<"w","h","i","l","e">>, <<"l","o","o","p">>, <<"i","f">>,
           <<"e","l","s","e">>, <<"w","h","e","n">> } |->
     CASE w = <<"f","u","n">> -> Fun
       [] w = <<"v","a","l">> -> Val
       [] w = <<"v","a","r">> -> Var
       [] w = <<"f","o","r">> -> For
       [] w = <<"w","h","i","l","e">> -> While
       [] w = <<"l","o","o","p">> -> Loop
       [] w = <<"i","f">> -> If
       [] w = <<"e","l","s","e">> -> Else
       [] w = <<"w","h","e","n">> -> When]

(* ------------------------ character classes ---------------------------- *)

\* unicode.IsLetter / unicode.IsDigit on the characters the model draws.
Letters == {"a","e","f","h","i","l","n","o","p","r","s","u","v","w","x"}
Digits == {"1","2","3","5"}

IsLetter(c) == c \in Letters
IsDigit(c) == c \in Digits

\* isIdentifierSegment without the '.'.
isIdentifierSegmentNoDot(r) ==
  IsLetter(r) \/ IsDigit(r) \/ r = "_" \/ r = "'"

isIdentifierSegment(r) ==
  IsLetter(r) \/ IsDigit(r) \/ r = "_" \/ r = "." \/ r = "'"

(* --------------------------- the lexer --------------------------------- *)

\* Go's s[a:b]: defined when 0 <= a <= b <= len(s), a run-time panic otherwise.
SliceOk(s, a, b) == 0 <= a /\ a <= b /\ b <= Len(s)
Slice(s, a, b) == SubSeq(s, a + 1, b)

\* Go's s[i]: defined when 0 <= i < len(s), a run-time panic otherwise.
IndexOk(s, i) == 0 <= i /\ i < Len(s)
At(s, i) == s[i + 1]

\* Lex: a fresh lexer struct per call (position, start and tokens zero values).
\* status is the call's control state: "running" inside lex's loop,
\* "returned" after lex returned l.tokens, "panicked" when the Go run time
\* aborted the call on an index or slice out of range.
NewLexer(filename, input) ==
  [filename |-> filename, input |-> input, tokens |-> <<>>,
   position |-> 0, start |-> 0, status |-> "running"]

Panic(lx) == [lx EXCEPT !.status = "panicked"]

\* The zero value of Token.location, before the lexer attaches one.
NoLocation == [start |-> 0, end |-> 0, text |-> <<>>, file |-> ""]

NewToken(kind, text, fullText) ==
  [Kind |-> kind, Text |-> text, FullText |-> fullText, location |-> NoLocation]

location(lx) ==
  [start |-> lx.start, end |-> lx.position, text |-> lx.input, file |-> lx.filename]

advance(lx, amount) == [lx EXCEPT !.position = lx.position + amount]

eof(lx) == lx.position >= Len(lx.input)

peek(lx) == At(lx.input, lx.position)

lookahead(lx, amount) == At(lx.input, lx.position + amount)

\* newToken with FullText running from the end of the previous token, so that
\* it takes in the whitespace skipped before the lexeme.
newTokenWithTrivia(lx, kind) ==
  LET text == Slice(lx.input, lx.start, lx.position)
      from == IF lx.tokens = <<>> THEN 0
              ELSE lx.tokens[Len(lx.tokens)].location.end
      fullText == Slice(lx.input, from, lx.position)
  IN  [NewToken(kind, text, fullText) EXCEPT !.location = location(lx)]

\* newToken(kind): the token over l.input[l.start:l.position] at l.location().
newToken(lx, kind) ==
  LET text == Slice(lx.input, lx.start, lx.position)
  IN  [NewToken(kind, text, text) EXCEPT !.location = location(lx)]

\* l.tokens = append(l.tokens, l.newToken(kind)); the slice inside newToken
\* panics when it is out of range, and nothing runs after a panic.
appendToken(lx, kind) ==
  IF lx.status # "running" THEN lx
  ELSE IF ~SliceOk(lx.input, lx.start, lx.position) THEN Panic(lx)
  ELSE [lx EXCEPT !.tokens = Append(lx.tokens, newToken(lx, kind))]

\* for !l.eof() && isIdentifierSegment(l.peek()) { l.advance(1) }
RECURSIVE identifierLoop(_)
identifierLoop(lx) ==
  IF ~eof(lx) /\ isIdentifierSegment(peek(lx))
  THEN identifierLoop(advance(lx, 1))
  ELSE lx

\* lexIdentifier with the keyword looked up as a prefix of the identifier.
lexIdentifierPrefix(lx) ==
  LET a == identifierLoop(advance(lx, 1))
      identifier == Slice(a.input, a.start, a.position)
      prefixes == { w \in DOMAIN keywords :
                      /\ Len(w) <= Len(identifier)
                      /\ SubSeq(identifier, 1, Len(w)) = w }
  IN  IF prefixes # {}
      THEN appendToken(a, keywords[CHOOSE w \in prefixes : TRUE])
      ELSE appendToken(a, Identifier)

lexIdentifier(lx) ==
  LET a == identifierLoop(advance(lx, 1))
      identifier == Slice(a.input, a.start, a.position)
  IN  IF identifier \in DOMAIN keywords
      THEN appendToken(a, keywords[identifier])
      ELSE appendToken(a, Identifier)

\* for !l.eof() && l.peek() != '"' { l.advance(1) }
RECURSIVE stringLoop(_)
stringLoop(lx) ==
  IF ~eof(lx) /\ peek(lx) # "\""
  THEN stringLoop(advance(lx, 1))
  ELSE lx

\* lexString with the quotes left in the token's Text.
lexStringKeepQuotes(lx) ==
  LET a == advance(stringLoop(advance(lx, 1)), 1)
  IN  IF ~SliceOk(a.input, a.start, a.position) THEN Panic(a)
      ELSE LET fullText == Slice(a.input, a.start, a.position)
               token == [NewToken(String, fullText, fullText)
                           EXCEPT !.location = location(a)]
           IN  [a EXCEPT !.tokens = Append(a.tokens, token)]

lexString(lx) ==
  LET a == advance(stringLoop(advance(lx, 1)), 1)
  IN  IF ~SliceOk(a.input, a.start + 1, a.position - 1) THEN Panic(a)
      ELSE IF ~SliceOk(a.input, a.start, a.position) THEN Panic(a)
      ELSE LET text == Slice(a.input, a.start + 1, a.position - 1)
               fullText == Slice(a.input, a.start, a.position)
               token == [NewToken(String, text, fullText)
                           EXCEPT !.location = location(a)]
           IN  [a EXCEPT !.tokens = Append(a.tokens, token)]

\* The inner loop of lexNumber: the digits after the '.'.
RECURSIVE fractionLoop(_)
fractionLoop(lx) ==
  IF ~eof(lx) /\ IsDigit(peek(lx))
  THEN fractionLoop(advance(lx, 1))
  ELSE lx

\* The outer loop of lexNumber: a digit is consumed, and a '.' right after it
\* starts the fraction, appends the Decimal token and breaks out of the loop.
RECURSIVE numberLoop(_)
numberLoop(lx) ==
  IF ~eof(lx) /\ IsDigit(peek(lx))
  THEN LET a == advance(lx, 1)
       IN  IF ~eof(a) /\ peek(a) = "."
           THEN appendToken(fractionLoop(advance(a, 1)), Decimal)
           ELSE numberLoop(a)
  ELSE lx

\* lexNumber with the Int token built before the remaining digits are consumed.
lexNumberFirstDigit(lx) == numberLoop(appendToken(advance(lx, 1), Int))

lexNumber(lx) == appendToken(numberLoop(advance(lx, 1)), Int)

\* The one-character cases of nextToken's switch: character -> kind appended.
punctuation ==
  [c \in {"%", ".", ",", ";", "{", "}", "[", "]", "(", ")", "+", "/", "*"} |->
     CASE c = "%" -> Percent
       [] c = "." -> Dot
       [] c = "," -> Comma
       [] c = ";" -> Comma
       [] c = "{" -> LeftBrace
       [] c = "}" -> RightBrace
       [] c = "[" -> LeftBracket
       [] c = "]" -> RightBracket
       [] c = "(" -> LeftParen
       [] c = ")" -> RightParen
       [] c = "+" -> Plus
       [] c = "/" -> Slash
       [] c = "*" -> Asterisk]

\* lookaheadCases with the fallback of '!' being the Not its name suggests.
lookaheadCasesBangNot ==
  [c \in {"-", "|", "&", "!", ">", "<", "="} |->
     CASE c = "-" -> [second |-> ">", pair |-> Arrow, single |-> <<Minus, Minus>>]
       [] c = "|" -> [second |-> "|", pair |-> Or, single |-> <<>>]
       [] c = "&" -> [second |-> "&", pair |-> And, single |-> <<>>]
       [] c = "!" -> [second |-> "=", pair |-> NotEqual, single |-> <<Not>>]
       [] c = ">" -> [second |-> "=", pair |-> GreaterEqual, single |-> <<Greater>>]
       [] c = "<" -> [second |-> "=", pair |-> LessEqual, single |-> <<Less>>]
       [] c = "=" -> [second |-> "=", pair |-> Equal, single |-> <<Assign>>]]

\* The cases of nextToken that read l.lookahead(1): first character ->
\* [second character, kind of the pair, kinds appended when the pair does not
\* match (in order)].  '-' appends Minus in the inner default and again after
\* the inner switch; '|' and '&' have no inner default.
lookaheadCases ==
  [c \in {"-", "|", "&", "!", ">", "<", "="} |->
     CASE c = "-" -> [second |-> ">", pair |-> Arrow, single |-> <<Minus, Minus>>]
       [] c = "|" -> [second |-> "|", pair |-> Or, single |-> <<>>]
       [] c = "&" -> [second |-> "&", pair |-> And, single |-> <<>>]
       [] c = "!" -> [second |-> "=", pair |-> NotEqual, single |-> <<Equal>>]
       [] c = ">" -> [second |-> "=", pair |-> GreaterEqual, single |-> <<Greater>>]
       [] c = "<" -> [second |-> "=", pair |-> LessEqual, single |-> <<Less>>]
       [] c = "=" -> [second |-> "=", pair |-> Equal, single |-> <<Assign>>]]

RECURSIVE appendTokens(_, _)
appendTokens(lx, kinds) ==
  IF kinds = <<>> THEN lx
  ELSE appendTokens(appendToken(lx, Head(kinds)), Tail(kinds))

\* nextToken returning without the l.position++ at its end.
incrementMissing(lx) == lx

\* l.position++ at the end of nextToken (not reached after a panic).
increment(lx) == IF lx.status # "running" THEN lx ELSE advance(lx, 1)

\* lookaheadCase with the pair consumed by the l.position++ at the end of
\* nextToken instead of advance(2).
lookaheadCaseAdvanceOne(lx, c) ==
  IF ~IndexOk(lx.input, lx.position + 1) THEN Panic(lx)
  ELSE IF lookahead(lx, 1) = lookaheadCases[c].second
       THEN increment(appendToken(lx, lookaheadCases[c].pair))
       ELSE increment(appendTokens(lx, lookaheadCases[c].single))

\* One case of nextToken with a lookahead: l.input[l.position+1] is read
\* first and panics at the last character of the input.
lookaheadCase(lx, c) ==
  IF ~IndexOk(lx.input, lx.position + 1) THEN Panic(lx)
  ELSE IF lookahead(lx, 1) = lookaheadCases[c].second
       THEN advance(appendToken(lx, lookaheadCases[c].pair), 2)
       ELSE increment(appendTokens(lx, lookaheadCases[c].single))

\* The whitespace case with the line feed added to it.
WhitespaceWithLineFeed == {" ", "\t", "\r", "\n"}

Whitespace == {" ", "\t", "\r"}

\* nextToken: called with l.position < len(l.input); always returns true.
nextToken(lx) ==
  LET c == peek(lx)
  IN  CASE c \in Whitespace -> increment(lx)
        [] c \in DOMAIN punctuation -> increment(appendToken(lx, punctuation[c]))
        [] c \in DOMAIN lookaheadCases -> lookaheadCase(lx, c)
        [] OTHER ->
             IF IsLetter(c) THEN lexIdentifier(lx)
             ELSE IF IsDigit(c) THEN lexNumber(lx)
             ELSE IF c = "\"" THEN lexString(lx)
             ELSE increment(appendToken(lx, Error))

(* ----------------------------- inputs ---------------------------------- *)

\* The characters inputs are enumerated over: every case of the switch, two
\* letters and an 'x', two digits, the quote, the other identifier segments,
\* the line feed and two characters no case matches.
Alphabet ==
  Whitespace \cup DOMAIN punctuation \cup DOMAIN lookaheadCases
    \cup {"i", "f", "x", "1", "2", "\"", "_", "'", "\n", "@", "#"}

\* Longer lexemes, concatenated word by word.
Words ==
  DOMAIN keywords \cup
  { <<"f","u","n","x">>, <<"i","f","f">>, <<"x","1">>, <<"1","2","3">>,
    <<"1","2",".","5">>, <<"1","2",".">>, <<"1",".","5">>,
    <<"\"","h","i","\"">>, <<"\"","h","i">>, <<"\"","\"">>,
    <<"-",">">>, <<"-">>, <<"&">>, <<"|","|">>, <<"@">>, <<" ">>, <<".">> }

RECURSIVE Flatten(_)
Flatten(ws) == IF ws = <<>> THEN <<>> ELSE Head(ws) \o Flatten(Tail(ws))

Inputs ==
  UNION { [1..n -> Alphabet] : n \in 0..MaxLen }
    \cup { Flatten(ws) : ws \in UNION { [1..n -> Words] : n \in 0..MaxWords } }

Filenames == {"main.tonho"}

(* --------------------------- the state machine ------------------------- *)

\* No concurrent calls: the single-call specification leaves calls alone.
NoCalls == <<>>

\* Lex(filename, input): l := lexer{filename, input}, then l.lex().
Init ==
  /\ l \in { NewLexer(f, in) : f \in Filenames, in \in Inputs }
  /\ steps = 0
  /\ calls = NoCalls

\* The iteration of lex's loop that finds the end of input: l.start =
\* l.position, the EOF token is appended and lex returns l.tokens.
lexEnd(lx) ==
  [appendToken([lx EXCEPT !.start = lx.position], EOF)
     EXCEPT !.status = IF @ = "running" THEN "returned" ELSE @]

LexEOF ==
  /\ l.status = "running"
  /\ l.position >= Len(l.input)
  /\ l' = lexEnd(l)
  /\ UNCHANGED <<steps, calls>>

\* One iteration of lex's loop short of the end of input: l.start = l.position,
\* then nextToken (which always returns true, so the loop goes on).
lexIteration(lx) == nextToken([lx EXCEPT !.start = lx.position])

\* The loop is at a character of chars.
AtChar(chars) ==
  /\ l.status = "running"
  /\ l.position < Len(l.input)
  /\ peek(l) \in chars

\* The characters the default case of the switch reports as errors.
Unmatched ==
  Alphabet \ (Whitespace \cup DOMAIN punctuation \cup DOMAIN lookaheadCases
                \cup Letters \cup Digits \cup {"\""})

\* The call of nextToken in lex's loop.
CallNextToken ==
  /\ l' = lexIteration(l)
  /\ steps' = steps + 1
  /\ UNCHANGED calls

DispatchWhitespace == AtChar(Whitespace) /\ CallNextToken
DispatchPunctuation == AtChar(DOMAIN punctuation) /\ CallNextToken
DispatchLookahead == AtChar(DOMAIN lookaheadCases) /\ CallNextToken
DispatchLetter == AtChar(Letters) /\ CallNextToken
DispatchDigit == AtChar(Digits) /\ CallNextToken
DispatchQuote == AtChar({"\""}) /\ CallNextToken
DispatchUnmatched == AtChar(Unmatched) /\ CallNextToken

Next ==
  \/ LexEOF
  \/ DispatchWhitespace
  \/ DispatchPunctuation
  \/ DispatchLookahead
  \/ DispatchLetter
  \/ DispatchDigit
  \/ DispatchQuote
  \/ DispatchUnmatched

Spec == Init /\ [][Next]_vars

(* ------------------------- concurrent Lex calls ------------------------ *)

\* lexer.lex run from lx to its end with nothing interleaved: the loop until
\* the EOF token is appended (or the call panics).
RECURSIVE lex(_)
lex(lx) ==
  IF lx.status # "running" THEN lx
  ELSE IF lx.position >= Len(lx.input) THEN lexEnd(lx)
  ELSE lex(lexIteration(lx))

\* Lex(filename, input) as one call.
Lex(filename, input) == lex(NewLexer(filename, input))

\* The goroutines that call Lex at the same time.
Calls == {1, 2}

CallWords ==
  { <<"f","u","n">>, <<"x">>, <<"1","2",".","5">>, <<"\"","h","i","\"">>,
    <<"-",">">>, <<"-">>, <<"@">>, <<" ">> }

CallInputs ==
  { Flatten(ws) : ws \in UNION { [1..n -> CallWords] : n \in 0..MaxCallWords } }

\* The call that is not followed step by step while the calls interleave.
IdleLexer == lexEnd(NewLexer("", <<>>))

\* Each call constructs its own lexer struct from its own arguments.
ConcInit ==
  /\ calls \in [Calls -> { NewLexer(f, in) : f \in Filenames, in \in CallInputs }]
  /\ l = IdleLexer
  /\ steps = 0

\* Tokens kept in one package-level slice instead of the call's own struct:
\* every call sees what any call appended.
callStepSharedTokens(cs, i, next) ==
  [j \in DOMAIN cs |->
     IF j = i THEN next ELSE [cs[j] EXCEPT !.tokens = next.tokens]]

\* One step of call i: it writes the fields of its own struct and nothing
\* else (keywords and the input string are only read).
callStep(cs, i, next) == [cs EXCEPT ![i] = next]

\* Call i runs the iteration of lex's loop that ends it.
CallEOF(i) ==
  /\ calls[i].status = "running"
  /\ calls[i].position >= Len(calls[i].input)
  /\ calls' = callStep(calls, i, lexEnd(calls[i]))
  /\ UNCHANGED <<l, steps>>

\* Call i runs one iteration of lex's loop that calls nextToken.
CallDispatch(i) ==
  /\ calls[i].status = "running"
  /\ calls[i].position < Len(calls[i].input)
  /\ calls' = callStep(calls, i, lexIteration(calls[i]))
  /\ UNCHANGED <<l, steps>>

ConcNext == \E i \in Calls : CallEOF(i) \/ CallDispatch(i)

ConcSpec == ConcInit /\ [][ConcNext]_vars

(* ------------------------------ claims --------------------------------- *)

LastToken(lx) == lx.tokens[Len(lx.tokens)]

\* The step appended exactly the tokens added to what was there before.
Appended(added) == l'.tokens = l.tokens \o added

\* C1: every Lex call ends by returning a non-empty token sequence whose last
\* token is EOF with an empty span at len(input): once the call is over, it
\* is over by a return of such a sequence.
C1_ReturnsEOFLast ==
  l.status # "running" =>
    /\ l.status = "returned"
    /\ Len(l.tokens) >= 1
    /\ LastToken(l).Kind = EOF
    /\ LastToken(l).location.start = Len(l.input)
    /\ LastToken(l).location.end = Len(l.input)

\* C2: Lex never aborts: no input drives the call into a run-time panic.
C2_NeverAborts == l.status # "panicked"

\* C3: in every state start <= position <= len(input), no index or slice
\* outside the input was read (which is what aborts the call), and every
\* token's span lies inside [0, len(input)].
C3_WithinInput ==
  /\ l.start <= l.position
  /\ l.position <= Len(l.input)
  /\ l.status # "panicked"
  /\ \A i \in DOMAIN l.tokens :
       /\ l.tokens[i].location.start <= l.tokens[i].location.end
       /\ l.tokens[i].location.end <= Len(l.input)

\* The end of the lexeme that starts with the letter at offset p: the first
\* offset after p that is the end of input or holds no identifier segment.
LexemeEnd(in, p) ==
  CHOOSE j \in (p + 1)..Len(in) :
    /\ \A k \in (p + 1)..(j - 1) : isIdentifierSegment(At(in, k))
    /\ j = Len(in) \/ ~isIdentifierSegment(At(in, j))

\* C4: a lexeme that starts with a letter gives exactly one token whose text
\* is the whole lexeme, of the keyword's kind if and only if the whole lexeme
\* is one of the nine keywords and of kind Identifier otherwise ("fun" is
\* Fun, "funx" is Identifier).
C4_LetterLexeme ==
  [][AtChar(Letters) =>
       LET j == LexemeEnd(l.input, l.position)
           w == Slice(l.input, l.position, j)
           t == LastToken(l')
       IN  /\ l'.status = "running"
           /\ l'.position = j
           /\ Len(l'.tokens) = Len(l.tokens) + 1
           /\ Appended(<<t>>)
           /\ t.Text = w
           /\ t.location.start = l.position /\ t.location.end = j
           /\ (w \in DOMAIN keywords) => t.Kind = keywords[w]
           /\ (w \notin DOMAIN keywords) => t.Kind = Identifier
           /\ (t.Kind \in {Fun, Val, Var, For, While, Loop, If, Else, When})
                 <=> (w \in DOMAIN keywords)
           /\ (w = <<"f","u","n">>) => t.Kind = Fun
           /\ (w = <<"f","u","n","x">>) => t.Kind = Identifier]_vars

C4_Witness ==
  /\ l.status = "returned"
  /\ l.input = <<"f","u","n">>
  /\ Len(l.tokens) = 2
  /\ l.tokens[1].Kind = Fun
  /\ l.tokens[1].Text = <<"f","u","n">>

AllDigits(in) == Len(in) >= 1 /\ \A i \in DOMAIN in : IsDigit(in[i])

\* C5: an input that is a run of one or more digits gives exactly one Int
\* token whose text is the whole run, followed only by the EOF token.
C5_DigitRunIsOneInt ==
  AllDigits(l.input) =>
    /\ l.status # "panicked"
    /\ l.status = "returned" =>
         /\ Len(l.tokens) = 2
         /\ l.tokens[1].Kind = Int
         /\ l.tokens[1].Text = l.input
         /\ l.tokens[1].location.start = 0
         /\ l.tokens[1].location.end = Len(l.input)
         /\ l.tokens[2].Kind = EOF

C5_Witness ==
  /\ l.status = "returned"
  /\ l.input = <<"1","2","3">>
  /\ l.tokens[1].Kind = Int
  /\ l.tokens[1].Text = <<"1","2","3">>

\* The input is digits, one '.', and zero or more digits.
IsDecimalLexeme(in) ==
  \E d \in 2..Len(in) :
    /\ in[d] = "."
    /\ \A i \in DOMAIN in : i # d => IsDigit(in[i])

\* C6: a number written as digits, a '.', and zero or more digits gives
\* exactly one token, a Decimal whose text is the whole lexeme, and no other
\* token but the EOF.
C6_DecimalIsOneToken ==
  (IsDecimalLexeme(l.input) /\ l.status = "returned") =>
    /\ Len(l.tokens) = 2
    /\ l.tokens[1].Kind = Decimal
    /\ l.tokens[1].Text = l.input
    /\ l.tokens[2].Kind = EOF

\* The offset of the quote that closes the string opened at offset p, if any.
HasClosingQuote(in, p) == \E j \in (p + 1)..(Len(in) - 1) : At(in, j) = "\""
ClosingQuote(in, p) ==
  CHOOSE j \in (p + 1)..(Len(in) - 1) :
    /\ At(in, j) = "\""
    /\ \A k \in (p + 1)..(j - 1) : At(in, k) # "\""

\* C7: a string literal with its closing quote gives exactly one String
\* token: Text is what lies strictly between the quotes, FullText includes
\* both quotes, and the Location runs from the opening quote to just past the
\* closing one.
C7_StringLiteral ==
  [][(AtChar({"\""}) /\ HasClosingQuote(l.input, l.position)) =>
       LET j == ClosingQuote(l.input, l.position)
           t == LastToken(l')
       IN  /\ l'.status = "running"
           /\ l'.position = j + 1
           /\ Len(l'.tokens) = Len(l.tokens) + 1
           /\ Appended(<<t>>)
           /\ t.Kind = String
           /\ t.Text = Slice(l.input, l.position + 1, j)
           /\ t.FullText = Slice(l.input, l.position, j + 1)
           /\ t.location.start = l.position
           /\ t.location.end = j + 1]_vars

C7_Witness ==
  /\ l.status = "returned"
  /\ l.input = <<"\"","h","i","\"">>
  /\ l.tokens[1].Kind = String
  /\ l.tokens[1].Text = <<"h","i">>
  /\ l.tokens[1].FullText = <<"\"","h","i","\"">>

\* The character at the cursor is c and the next one, if any, is not d.
AtCharNotFollowedBy(c, d) ==
  /\ AtChar({c})
  /\ IndexOk(l.input, l.position + 1) => At(l.input, l.position + 1) # d

\* C8: a '-' not followed by '>' (also as the last character of the input)
\* gives exactly one Minus token and the scan goes on at the next character.
C8_MinusIsOneToken ==
  [][AtCharNotFollowedBy("-", ">") =>
       /\ l'.status = "running"
       /\ l'.position = l.position + 1
       /\ Len(l'.tokens) = Len(l.tokens) + 1
       /\ Appended(<<LastToken(l')>>)
       /\ LastToken(l').Kind = Minus]_vars

\* C9: a '&' not followed by '&', or a '|' not followed by '|' (also as the
\* last character of the input), gives no token; the cursor advances by
\* exactly one and the scan goes on.
C9_UnmatchedPipeAmpersand ==
  [][(AtCharNotFollowedBy("&", "&") \/ AtCharNotFollowedBy("|", "|")) =>
       /\ l'.status = "running"
       /\ l'.position = l.position + 1
       /\ l'.tokens = l.tokens]_vars

\* C10: a character no case matches gives exactly one Error token whose text
\* is that one character and whose Location covers exactly that character,
\* and the scan resumes at the following character.
C10_ErrorTokenCoversCharacter ==
  [][AtChar(Unmatched) =>
       LET t == LastToken(l')
       IN  /\ l'.status = "running"
           /\ l'.position = l.position + 1
           /\ Len(l'.tokens) = Len(l.tokens) + 1
           /\ Appended(<<t>>)
           /\ t.Kind = Error
           /\ t.Text = <<peek(l)>>
           /\ t.location.start = l.position
           /\ t.location.end = t.location.start + 1]_vars

C12_CallsAreIndependent ==
  /\ \A i \in Calls :
       calls[i].status # "running" =>
         LET alone == Lex(calls[i].filename, calls[i].input)
         IN  /\ calls[i].status = alone.status
             /\ calls[i].tokens = alone.tokens
  /\ \A i, j \in Calls :
       ( /\ calls[i].status = "returned" /\ calls[j].status = "returned"
         /\ calls[i].filename = calls[j].filename
         /\ calls[i].input = calls[j].input )
         => calls[i].tokens = calls[j].tokens

\* Two interleaved calls on different inputs have both returned.
C12_Witness ==
  /\ calls[1].status = "returned" /\ calls[2].status = "returned"
  /\ calls[1].input = <<"f","u","n">>
  /\ calls[2].input = <<"1","2",".","5">>
  /\ calls[1].tokens[1].Kind = Fun
  /\ calls[2].tokens[1].Kind = Decimal

\* C13: one call of nextToken appends no token or exactly one token, whatever
\* the current character and whatever follows it.
C13_AtMostOneTokenPerStep ==
  [][AtChar(Alphabet \cup Letters \cup Digits) =>
       \/ l'.tokens = l.tokens
       \/ /\ Len(l'.tokens) = Len(l.tokens) + 1
          /\ Appended(<<LastToken(l')>>)]_vars

\* C14: every nextToken call that completes leaves position at least one
\* higher and at most len(input), on every branch; so lex's loop makes at most
\* len(input) such calls before the EOF token is appended.
C14_PositionStrictlyIncreases ==
  [][/\ steps' <= Len(l'.input)
     /\ (AtChar(Alphabet \cup Letters \cup Digits) /\ l'.status = "running") =>
          /\ l'.position >= l.position + 1
          /\ l'.position <= Len(l.input)
          /\ steps' = steps + 1
          /\ steps' <= l'.position]_vars

\* Lex returned after as many nextToken calls as the input has characters,
\* one on an unmatched '&' and one on whitespace.
C14_Witness ==
  /\ l.status = "returned"
  /\ l.input = <<"&", " ">>
  /\ steps = 2
  /\ l.position = 2

\* The character at the cursor is c and the next character is d.
AtPair(c, d) ==
  /\ AtChar({c})
  /\ IndexOk(l.input, l.position + 1)
  /\ At(l.input, l.position + 1) = d

\* The step appended exactly one token, of the given kind, and the call goes on.
AppendedOne(kind) ==
  /\ l'.status = "running"
  /\ Len(l'.tokens) = Len(l.tokens) + 1
  /\ Appended(<<LastToken(l')>>)
  /\ LastToken(l').Kind = kind

\* The two-character operators: first character, second character, kind.
TwoCharacterOperators ==
  { <<"-", ">", Arrow>>, <<"|", "|", Or>>, <<"&", "&", And>>,
    <<"!", "=", NotEqual>>, <<">", "=", GreaterEqual>>,
    <<"<", "=", LessEqual>>, <<"=", "=", Equal>> }

\* C15: when the first character of a two-character operator is immediately
\* followed by the matching second character, exactly one token of the
\* two-character kind is appended and the cursor advances by exactly two.
C15_TwoCharacterOperator ==
  [][\A op \in TwoCharacterOperators :
       AtPair(op[1], op[2]) =>
         /\ AppendedOne(op[3])
         /\ l'.position = l.position + 2]_vars

C15_Witness ==
  /\ l.status = "returned"
  /\ l.input = <<"-", ">">>
  /\ Len(l.tokens) = 2
  /\ l.tokens[1].Kind = Arrow
  /\ l.tokens[2].Kind = EOF

\* The character at the cursor is c and a character other than d follows it.
AtCharBeforeOther(c, d) ==
  /\ AtChar({c})
  /\ IndexOk(l.input, l.position + 1)
  /\ At(l.input, l.position + 1) # d

AtLast(c) == AtChar({c}) /\ l.position + 1 = Len(l.input)

DigitRunEnd(in, p) ==
  CHOOSE j \in (p + 1)..Len(in) :
    /\ \A k \in (p + 1)..(j - 1) : IsDigit(At(in, k))
    /\ j = Len(in) \/ ~IsDigit(At(in, j))

\* C17: in a number, a '.' met after at least one digit (also after exactly
\* one) is consumed with all the digits that follow it as part of a Decimal
\* token, and is not left over for the next dispatch.
C17_DotAfterDigitsIsDecimal ==
  [][(/\ AtChar(Digits)
      /\ DigitRunEnd(l.input, l.position) < Len(l.input)
      /\ At(l.input, DigitRunEnd(l.input, l.position)) = ".") =>
       LET end == IF DigitRunEnd(l.input, l.position) + 1 = Len(l.input)
                  THEN Len(l.input)
                  ELSE DigitRunEnd(l.input, DigitRunEnd(l.input, l.position))
       IN  /\ l'.status = "running"
           /\ l'.position = end
           /\ \E i \in (Len(l.tokens) + 1)..Len(l'.tokens) :
                /\ l'.tokens[i].Kind = Decimal
                /\ l'.tokens[i].location.start = l.position
                /\ l'.tokens[i].location.end = end]_vars

\* The characters an identifier goes on with after its first letter.
SegmentChars == Letters \cup Digits \cup {"_", ".", "'"}

\* C18: identifier scanning is maximal: the token of a lexeme that starts
\* with a letter covers the letter and the longest run of letters, digits,
\* '_', '.' and '\'' after it, so the cursor is then at the end of the input
\* or at a character that is no identifier segment; the scan reads nothing
\* past the end when the identifier runs to the end (the call goes on).
C18_IdentifierIsMaximal ==
  [][AtChar(Letters) =>
       /\ l'.status = "running"
       /\ l'.position > l.position
       /\ l'.position <= Len(l.input)
       /\ \A k \in (l.position + 1)..(l'.position - 1) :
            At(l.input, k) \in SegmentChars
       /\ l'.position = Len(l.input) \/ At(l.input, l'.position) \notin SegmentChars
       /\ Appended(<<LastToken(l')>>)
       /\ LastToken(l').location.start = l.position
       /\ LastToken(l').location.end = l'.position
       /\ LastToken(l').Text = Slice(l.input, l.position, l'.position)]_vars

\* An identifier that ends in a '.', a '\'' or a '_' and runs to the end of input.
C18_Witness ==
  /\ l.status = "returned"
  /\ \E c \in {".", "'", "_"} : l.input = <<"x", c>>
  /\ Len(l.tokens) = 2
  /\ l.tokens[1].Kind = Identifier
  /\ l.tokens[1].Text = l.input

\* C19: a space, tab or carriage return gives no token and moves the cursor
\* by exactly one; a line feed gives exactly one Error token; and no token of
\* kind Comment or Newline is ever in the token list.
C19_WhitespaceAndLineFeed ==
  [][/\ AtChar({" ", "\t", "\r"}) =>
          /\ l'.status = "running"
          /\ l'.tokens = l.tokens
          /\ l'.position = l.position + 1
     /\ AtChar({"\n"}) => AppendedOne(Error)
     /\ \A i \in DOMAIN l'.tokens :
          l'.tokens[i].Kind \notin {Comment, Newline}]_vars

C19_Witness ==
  /\ l.status = "returned"
  /\ l.input = <<" ", "\n">>
  /\ Len(l.tokens) = 2
  /\ l.tokens[1].Kind = Error
  /\ l.tokens[1].location.start = 1

\* C20: in the token list the spans are in order and do not overlap: each
\* token starts at or after the end of the token before it.
C20_SpansInOrder ==
  \A i \in 1..(Len(l.tokens) - 1) :
    l.tokens[i + 1].location.start >= l.tokens[i].location.end

====
